---- MODULE Spec2Model ----
(***************************************************************************)
(* The conversation-history exchange of the MCP web client:                *)
(* web-client/src/App.js (the App component and its handlers) and the api  *)
(* service it calls (api.processQuery).                                    *)
(*                                                                         *)
(* JavaScript runs the component single-threaded: a handler runs without   *)
(* interruption up to its first await, React renders the batched state     *)
(* updates before the next DOM event is dispatched, and the part of        *)
(* handleProcessQuery after the await runs as one uninterrupted step when  *)
(* the backend call settles.  The model therefore has one action per DOM   *)
(* event and one per settlement of a backend call.                         *)
(***************************************************************************)
EXTENDS Integers, Sequences, FiniteSets, TLC

VARIABLES
    conversation,   \* App.js:6   useState([])    the list of turns
    query,          \* App.js:7   useState('')    the text of the textarea
    isProcessing,   \* App.js:8   useState(false)
    inflight,       \* the axios.post calls that have not settled yet (api.processQuery)
    calls,          \* observer: number of backend calls issued in the session
    succeeded,      \* observer: exchanges whose try block completed since the conversation was last empty
    failed,         \* observer: exchanges that ended in the catch block since then
    lastEvent       \* observer: the DOM event or backend settlement handled last

vars == <<conversation, query, isProcessing, inflight, calls, succeeded, failed, lastEvent>>

prog == <<conversation, query, isProcessing, inflight, calls, succeeded, failed>>

-----------------------------------------------------------------------------
(* Bounds of the model *)

\* number of submissions accepted in one session
MaxExchanges == 2

-----------------------------------------------------------------------------
(* Texts *)

\* the values the textarea is given: empty, whitespace only, a word, and a
\* word with whitespace around it
Texts == {"", " ", "a", " a "}

\* the characters String.prototype.trim removes
IsWhiteSpace(c) == c \in {" ", "\t", "\n", "\r"}

RECURSIVE trimStart(_)
trimStart(s) ==
    IF s = "" THEN ""
    ELSE IF IsWhiteSpace(Head(s)) THEN trimStart(Tail(s))
    ELSE s

RECURSIVE trimEnd(_)
trimEnd(s) ==
    IF s = "" THEN ""
    ELSE IF IsWhiteSpace(SubSeq(s, Len(s), Len(s))) THEN trimEnd(SubSeq(s, 1, Len(s) - 1))
    ELSE s

\* String.prototype.trim
trim(s) == trimEnd(trimStart(s))

-----------------------------------------------------------------------------
(* JavaScript values: what a response body, and so a turn's content, can be *)

Str(s) == [t |-> "string", s |-> s]

Num(n) == [t |-> "number", n |-> n]

Null == [t |-> "null"]

Undefined == [t |-> "undefined"]

\* an object, of which only the message property matters (Undefined: no such property)
Obj(m) == [t |-> "object", message |-> m]

\* ToBoolean
Truthy(v) ==
    CASE v.t = "string" -> v.s # ""
      [] v.t = "number" -> v.n # 0
      [] v.t = "object" -> TRUE
      [] OTHER -> FALSE

\* v.message for a value that is neither null nor undefined
GetMessage(v) == IF v.t = "object" THEN v.message ELSE Undefined

\* optional chaining: response?.message never throws
PropertyReadNeverThrows(v) == FALSE

\* reading a property of null or undefined throws a TypeError
PropertyReadThrows(v) == v.t \in {"null", "undefined"}

TypeErrorMessage(v) == "Cannot read properties of " \o v.t \o " (reading 'message')"

-----------------------------------------------------------------------------
(* The backend call: api.processQuery *)

\* bodies of a 2xx response, as axios hands them over in response.data
Payloads ==
    { Obj(Str("hi")),      \* { "message": "hi" }
      Obj(Str("")),        \* { "message": "" }
      Obj(Undefined),      \* a JSON object without a message property
      Obj(Num(0)),         \* { "message": 0 }
      Obj(Num(7)),         \* { "message": 7 }
      Str("oops"),         \* a body that is not JSON: axios leaves the text
      Null,                \* the JSON body null
      Undefined }          \* no body at all

\* the errors axios.post rejects with: no connection, a non-2xx status, and
\* an error object without a message
Errors ==
    { [message |-> "Network Error"],
      [message |-> "Request failed with status code 500"],
      [message |-> ""] }

\* how an axios.post call settles
Outcomes ==
    {[ok |-> TRUE, data |-> d] : d \in Payloads} \cup
    {[ok |-> FALSE, error |-> e] : e \in Errors}

\* api.processQuery once axios.post has settled: response.data is returned,
\* an error is logged and thrown again
processQuery(outcome) ==
    IF outcome.ok
    THEN [threw |-> FALSE, value |-> outcome.data]
    ELSE [threw |-> TRUE, error |-> outcome.error]

\* the body posted to /api/process
PostBody(q, conversationHistory) == [query |-> q, history |-> conversationHistory]

-----------------------------------------------------------------------------
(* The App component *)

\* a textarea that is never disabled
TextareaEnabledInFlight == FALSE

\* the disabled prop of the textarea
TextareaDisabled == isProcessing

\* the disabled prop of the Process Query button
ProcessButtonDisabled == trim(query) = "" \/ isProcessing

\* a Clear History button that is disabled only by an empty conversation
ClearEnabledInFlight == Len(conversation) = 0

\* the disabled prop of the Clear History button
ClearButtonDisabled == Len(conversation) = 0 \/ isProcessing

\* a guard that rejects the empty text only: !query
QueryIsEmpty == query = ""

\* the guard of handleProcessQuery: !query.trim()
QueryIsBlank == trim(query) = ""

\* the turn of the query being submitted
userMessage == [role |-> "user", content |-> Str(query)]

\* a history taken after the user turn is added
historyWithPending ==
    [i \in 1..(Len(conversation) + 1) |->
        IF i <= Len(conversation)
        THEN [role |-> conversation[i].role, content |-> conversation[i].content]
        ELSE userMessage]

\* the history handed to the API: conversation.map(entry => ({role, content}))
historyForApi ==
    [i \in 1..Len(conversation) |->
        [role |-> conversation[i].role, content |-> conversation[i].content]]

\* a conversation that gets the user turn only with the reply
WithoutUserMessage == conversation

\* a conversation replaced by the user turn: [userMessage]
OnlyUserMessage == <<userMessage>>

\* the conversation set at submission: [...conversation, userMessage]
WithUserMessage == conversation \o <<userMessage>>

\* response.message || response
ResponseContent(response) ==
    IF Truthy(GetMessage(response)) THEN GetMessage(response) ELSE response

\* the turn of a reply
assistantMessage(response) == [role |-> "assistant", content |-> ResponseContent(response)]

\* error.message || 'Failed to process query'
ErrorText(error) == IF error.message # "" THEN error.message ELSE "Failed to process query"

\* a failure turn without the prefix
errorMessageNoPrefix(error) == [role |-> "assistant", content |-> Str(ErrorText(error))]

\* the turn of a failure
errorMessage(error) == [role |-> "assistant", content |-> Str("Error: " \o ErrorText(error))]

\* a sequence without its i-th element
RemoveAt(s, i) == SubSeq(s, 1, i - 1) \o SubSeq(s, i + 1, Len(s))

Init ==
    /\ conversation = <<>>
    /\ query = ""
    /\ isProcessing = FALSE
    /\ inflight = <<>>
    /\ calls = 0
    /\ succeeded = 0
    /\ failed = 0
    /\ lastEvent = [name |-> "init"]

\* handleProcessQuery up to its await: the guard, the user turn, the flag and
\* the backend call (a session of the model accepts MaxExchanges submissions)
handleProcessQuery ==
    IF QueryIsBlank
    THEN UNCHANGED prog
    ELSE /\ calls < MaxExchanges
         /\ conversation' = WithUserMessage
         /\ isProcessing' = TRUE
         /\ inflight' = Append(inflight, PostBody(query, historyForApi))
         /\ calls' = calls + 1
         /\ UNCHANGED <<query, succeeded, failed>>

\* a try block that leaves the textarea as it is
tryKeepsQuery(response) ==
    /\ conversation' = Append(conversation, assistantMessage(response))
    /\ succeeded' = succeeded + 1
    /\ UNCHANGED <<query, failed>>

\* handleProcessQuery after its await, when the try block completes
tryCompletes(response) ==
    /\ conversation' = Append(conversation, assistantMessage(response))
    /\ query' = ""
    /\ succeeded' = succeeded + 1
    /\ UNCHANGED failed

\* a catch block that takes the user turn back
catchWithRollback(error) ==
    /\ conversation' =
          Append(SubSeq(conversation, 1, Len(conversation) - 1), errorMessage(error))
    /\ failed' = failed + 1
    /\ UNCHANGED <<query, succeeded>>

\* a catch block that appends no turn
catchWithoutTurn(error) ==
    /\ failed' = failed + 1
    /\ UNCHANGED <<conversation, query, succeeded>>

\* handleProcessQuery after its await, when the try block throws
catchBlock(error) ==
    /\ conversation' = Append(conversation, errorMessage(error))
    /\ failed' = failed + 1
    /\ UNCHANGED <<query, succeeded>>

\* the finally block
finallyBlock == isProcessing' = FALSE

\* a handler that resets the flag at the end of the try block only
resumeResetsOnSuccessOnly(result) ==
    IF result.threw
    THEN catchBlock(result.error) /\ UNCHANGED isProcessing
    ELSE IF PropertyReadThrows(result.value)
         THEN catchBlock([message |-> TypeErrorMessage(result.value)]) /\ UNCHANGED isProcessing
         ELSE tryCompletes(result.value) /\ finallyBlock

\* handleProcessQuery resumed with what api.processQuery returned or threw
resume(result) ==
    /\ IF result.threw
       THEN catchBlock(result.error)
       ELSE IF PropertyReadThrows(result.value)
            THEN catchBlock([message |-> TypeErrorMessage(result.value)])
            ELSE tryCompletes(result.value)
    /\ finallyBlock

\* a clear that keeps the last exchange: conversation.slice(-2)
clearKeepsLastExchange ==
    /\ conversation' = SubSeq(conversation, Len(conversation) - 1, Len(conversation))
    /\ succeeded' = 0
    /\ failed' = 0
    /\ UNCHANGED <<query, isProcessing, inflight, calls>>

\* a clear that empties the textarea instead of the conversation
clearQueryInstead ==
    /\ query' = ""
    /\ UNCHANGED <<conversation, isProcessing, inflight, calls, succeeded, failed>>

\* handleClearHistory
handleClearHistory ==
    /\ conversation' = <<>>
    /\ succeeded' = 0
    /\ failed' = 0
    /\ UNCHANGED <<query, isProcessing, inflight, calls>>

\* a key handler that does not look at the Shift key
handleKeyPressIgnoresShift(key, shiftKey) ==
    IF key = "Enter"
    THEN handleProcessQuery
    ELSE UNCHANGED prog

\* handleKeyPress
handleKeyPress(key, shiftKey) ==
    IF key = "Enter" /\ ~shiftKey
    THEN handleProcessQuery
    ELSE UNCHANGED prog

\* the keys of a keypress event
Keys == {"Enter", "a"}

-----------------------------------------------------------------------------
(* The events.  A disabled control dispatches no event. *)

\* a click on the Process Query button
ClickProcess ==
    /\ lastEvent' = [name |-> "click", dispatched |-> ~ProcessButtonDisabled]
    /\ IF ProcessButtonDisabled THEN UNCHANGED prog ELSE handleProcessQuery

\* a key pressed in the textarea
KeyPress(key, shiftKey) ==
    /\ lastEvent' = [name |-> "keypress", key |-> key, shiftKey |-> shiftKey,
                     dispatched |-> ~TextareaDisabled]
    /\ IF TextareaDisabled THEN UNCHANGED prog ELSE handleKeyPress(key, shiftKey)

\* an edit of the textarea: onChange
ChangeQuery(value) ==
    /\ lastEvent' = [name |-> "change", dispatched |-> ~TextareaDisabled]
    /\ IF TextareaDisabled
       THEN UNCHANGED prog
       ELSE /\ query' = value
            /\ UNCHANGED <<conversation, isProcessing, inflight, calls, succeeded, failed>>

\* a click on the Clear History button
ClickClear ==
    /\ lastEvent' = [name |-> "clear", dispatched |-> ~ClearButtonDisabled]
    /\ IF ClearButtonDisabled THEN UNCHANGED prog ELSE handleClearHistory

\* a settlement that issues the call again when it has failed
SettleWithRetry(i, outcome) ==
    /\ lastEvent' = [name |-> "settled", outcome |-> outcome, request |-> inflight[i]]
    /\ IF outcome.ok
       THEN /\ inflight' = RemoveAt(inflight, i)
            /\ resume(processQuery(outcome))
            /\ UNCHANGED calls
       ELSE /\ calls < MaxExchanges
            /\ calls' = calls + 1
            /\ UNCHANGED <<conversation, query, isProcessing, inflight, succeeded, failed>>

\* the i-th pending axios.post settles and handleProcessQuery resumes
Settle(i, outcome) ==
    /\ lastEvent' = [name |-> "settled", outcome |-> outcome, request |-> inflight[i]]
    /\ inflight' = RemoveAt(inflight, i)
    /\ resume(processQuery(outcome))
    /\ UNCHANGED calls

\* the backend answers with a 2xx response
BackendReplies == \E i \in 1..Len(inflight) : \E d \in Payloads : Settle(i, [ok |-> TRUE, data |-> d])

\* the backend is unreachable or answers with another status
BackendFails == \E i \in 1..Len(inflight) : \E e \in Errors : Settle(i, [ok |-> FALSE, error |-> e])

Next ==
    \/ ClickProcess
    \/ \E key \in Keys, shiftKey \in BOOLEAN : KeyPress(key, shiftKey)
    \/ \E value \in Texts : ChangeQuery(value)
    \/ ClickClear
    \/ BackendFails
    \/ BackendReplies

Spec == Init /\ [][Next]_vars

\* every backend call settles: the transport completes or fails, and the
\* event loop then resumes handleProcessQuery
FairSpec == Spec /\ WF_vars(BackendFails \/ BackendReplies)

-----------------------------------------------------------------------------
(* Vocabulary of the properties *)

\* the last element of a sequence
Last(s) == s[Len(s)]

\* the text s begins with the text p
StartsWith(s, p) == Len(s) >= Len(p) /\ SubSeq(s, 1, Len(p)) = p

\* the step accepts a submission: a backend call is issued
SubmissionAccepted == Len(inflight') = Len(inflight) + 1

\* the step resumes handleProcessQuery: a backend call has settled
ExchangeSettled == Len(inflight') = Len(inflight) - 1

\* the step is a click on Process Query or an Enter without Shift
SubmitAttempt ==
    \/ lastEvent'.name = "click"
    \/ /\ lastEvent'.name = "keypress"
       /\ lastEvent'.key = "Enter"
       /\ ~lastEvent'.shiftKey

\* s consists of whitespace only
OnlyWhiteSpace(s) == \A i \in 1..Len(s) : SubSeq(s, i, i) \in {" ", "\t", "\n", "\r"}

\* every user turn is immediately followed by an assistant turn
EveryUserTurnAnswered ==
    \A i \in 1..Len(conversation) :
        conversation[i].role = "user" =>
            i < Len(conversation) /\ conversation[i + 1].role = "assistant"

-----------------------------------------------------------------------------
(* C1: an accepted submission appends exactly one user turn, the settlement *)
(* of its backend call appends exactly one assistant turn right after that *)
(* user turn, and whenever no request is in flight every user turn of the  *)
(* conversation is immediately followed by an assistant turn.              *)
C1_OneUserThenOneAssistant ==
    /\ [](inflight = <<>> => EveryUserTurnAnswered)
    /\ [][ /\ SubmissionAccepted =>
                conversation' = Append(conversation, [role |-> "user", content |-> Str(query)])
           /\ ExchangeSettled =>
                /\ conversation # <<>>
                /\ Last(conversation).role = "user"
                /\ Len(conversation') = Len(conversation) + 1
                /\ SubSeq(conversation', 1, Len(conversation)) = conversation
                /\ Last(conversation').role = "assistant"
           /\ (~SubmissionAccepted /\ ~ExchangeSettled) =>
                (conversation' = conversation \/ conversation' = <<>>) ]_vars

\* an exchange has settled: the conversation ends in its user turn and its assistant turn
C1_Witness ==
    /\ lastEvent.name = "settled"
    /\ inflight = <<>>
    /\ Len(conversation) = 4
    /\ conversation[3].role = "user"
    /\ conversation[4].role = "assistant"

(* C2: while a request is in flight, a click on Process Query or an Enter  *)
(* leaves the conversation unchanged and issues no backend call; at most   *)
(* one backend call is outstanding at any time.                            *)
C2_SecondSubmitRejected ==
    /\ [](Len(inflight) <= 1)
    /\ [][(isProcessing /\ SubmitAttempt) =>
            /\ conversation' = conversation
            /\ inflight' = inflight
            /\ calls' = calls]_vars

\* an Enter arrives while a request is in flight
C2_Witness ==
    /\ isProcessing
    /\ Len(inflight) = 1
    /\ lastEvent.name = "keypress"
    /\ lastEvent.key = "Enter"
    /\ ~lastEvent.shiftKey
    /\ ~lastEvent.dispatched

(* C3: while a request is in flight the Clear History button is disabled   *)
(* and a click on it changes nothing, so the pending user turn stays in    *)
(* the conversation until its assistant turn is appended; a click on it    *)
(* with an empty conversation changes nothing either.                      *)
C3_ClearDisabledInFlight ==
    /\ [](isProcessing => ClearButtonDisabled /\ conversation # <<>>)
    /\ [][(lastEvent'.name = "clear" /\ (isProcessing \/ conversation = <<>>)) =>
            UNCHANGED prog]_vars
    /\ [][isProcessing => (conversation' # <<>>)]_vars

\* a click on Clear History arrives while a request is in flight
C3_Witness ==
    /\ isProcessing
    /\ lastEvent.name = "clear"
    /\ ~lastEvent.dispatched
    /\ Last(conversation).role = "user"

(* C4: a submit attempt with an empty or whitespace-only query leaves the  *)
(* whole session state unchanged: no turn is appended, no backend call is  *)
(* issued and isProcessing stays false.                                    *)
C4_BlankSubmitIgnored ==
    [][(OnlyWhiteSpace(query) /\ SubmitAttempt) =>
        /\ UNCHANGED <<conversation, query, isProcessing, inflight, calls>>
        /\ ~isProcessing']_vars

\* an Enter with a whitespace-only query reached handleProcessQuery
C4_Witness ==
    /\ lastEvent.name = "keypress"
    /\ lastEvent.key = "Enter"
    /\ ~lastEvent.shiftKey
    /\ lastEvent.dispatched
    /\ query = " "
    /\ ~isProcessing
    /\ inflight = <<>>

\* roles alternate in pairs: user at the odd places, assistant at the even ones
UserAssistantPairs ==
    \A i \in 1..Len(conversation) :
        conversation[i].role = (IF i % 2 = 1 THEN "user" ELSE "assistant")

\* C5 as stated: with no request in flight the conversation has two turns
\* per successful exchange since it was last empty
C5_LengthIsTwiceSuccesses ==
    inflight = <<>> => Len(conversation) = 2 * succeeded

(* C5, amended: with no request in flight the conversation that started    *)
(* empty has two turns, a user turn and an assistant turn, per settled     *)
(* exchange, failed ones included: 2N turns after N successes only when no *)
(* exchange failed; with a request in flight it has one turn more.         *)
C5_LengthIsTwiceSettled ==
    /\ inflight = <<>> =>
        /\ Len(conversation) = 2 * (succeeded + failed)
        /\ UserAssistantPairs
    /\ (inflight = <<>> /\ failed = 0) => Len(conversation) = 2 * succeeded
    /\ inflight # <<>> => Len(conversation) = 2 * (succeeded + failed) + 1

\* one exchange succeeded and one failed
C5_Witness ==
    /\ inflight = <<>>
    /\ succeeded = 1
    /\ failed = 1
    /\ Len(conversation) = 4

\* the settlement handled last, when it is a 2xx response
RepliedLast == lastEvent.name = "settled" /\ lastEvent.outcome.ok

\* a well-formed response body: { message: text }
WellFormed(d) == d.t = "object" /\ d.message.t = "string"

\* C6 as stated: after a 2xx response whose body has a message property
\* holding a text m, the empty text included, the assistant turn appended
\* has content m
C6_ContentIsMessage ==
    (RepliedLast /\ WellFormed(lastEvent.outcome.data)) =>
        /\ conversation # <<>>
        /\ Last(conversation) =
              [role |-> "assistant", content |-> lastEvent.outcome.data.message]

(* C7: when the backend call fails, handleProcessQuery catches the error   *)
(* and appends exactly one assistant turn whose content starts with        *)
(* "Error: ", so that the conversation is the history of the call, the     *)
(* submitted user turn and that turn.                                      *)
C7_FailureAppendsErrorTurn ==
    (lastEvent.name = "settled" /\ ~lastEvent.outcome.ok) =>
        /\ ~isProcessing
        /\ Len(conversation) = Len(lastEvent.request.history) + 2
        /\ SubSeq(conversation, 1, Len(conversation) - 2) = lastEvent.request.history
        /\ conversation[Len(conversation) - 1] =
              [role |-> "user", content |-> Str(lastEvent.request.query)]
        /\ Last(conversation).role = "assistant"
        /\ Last(conversation).content.t = "string"
        /\ StartsWith(Last(conversation).content.s, "Error: ")

\* a backend call has failed after an exchange that succeeded
C7_Witness ==
    /\ lastEvent.name = "settled"
    /\ ~lastEvent.outcome.ok
    /\ lastEvent.outcome.error.message = "Network Error"
    /\ Len(conversation) = 4

C9_HistoryExcludesPending ==
    [][SubmissionAccepted =>
        /\ Last(inflight').history = conversation
        /\ Last(inflight').query = query
        /\ conversation' =
              Append(Last(inflight').history, [role |-> "user", content |-> Str(query)])]_vars

\* a backend call with a history of two turns is in flight
C9_Witness ==
    /\ Len(inflight) = 1
    /\ Len(inflight[1].history) = 2
    /\ Len(conversation) = 3

(* C10: a click on Clear History while no request is in flight leaves the  *)
(* conversation empty, and an empty conversation stays empty until a       *)
(* submission is accepted.                                                 *)
C10_ClearEmpties ==
    [][ /\ (lastEvent'.name = "clear" /\ ~isProcessing) => conversation' = <<>>
        /\ (conversation = <<>> /\ ~SubmissionAccepted) => conversation' = <<>> ]_vars

\* a conversation of four turns has been cleared
C10_Witness ==
    /\ lastEvent.name = "clear"
    /\ lastEvent.dispatched
    /\ conversation = <<>>
    /\ calls = 2

\* the step handles a settlement of a backend call
SettlementHandled == lastEvent'.name = "settled" /\ lastEvent' # lastEvent

(* C11: an accepted submission issues exactly one backend call, which      *)
(* settles once; the settlement of a call, a failure included, issues no   *)
(* further call, and a call is issued only by a click on Process Query or  *)
(* an Enter that the page dispatches.                                      *)
C11_OneCallPerSubmission ==
    [][ /\ SubmissionAccepted =>
            /\ calls' = calls + 1
            /\ inflight' = Append(inflight, [query |-> query, history |-> conversation])
            /\ SubmitAttempt
            /\ lastEvent'.dispatched
        /\ calls' # calls => SubmissionAccepted
        /\ inflight' # inflight => (SubmissionAccepted \/ ExchangeSettled)
        /\ SettlementHandled =>
            /\ calls' = calls
            /\ inflight # <<>>
            /\ ExchangeSettled
            /\ lastEvent'.request \in {inflight[i] : i \in 1..Len(inflight)}
        /\ ExchangeSettled => SettlementHandled ]_vars

\* a backend call has failed and no call is pending after it
C11_Witness ==
    /\ lastEvent.name = "settled"
    /\ ~lastEvent.outcome.ok
    /\ inflight = <<>>
    /\ calls = 1
    /\ failed = 1

\* the successor of the session state that handleProcessQuery produces when
\* the query is not blank and no request is in flight
SubmissionEffect ==
    /\ conversation' = Append(conversation, [role |-> "user", content |-> Str(query)])
    /\ isProcessing'
    /\ inflight' = Append(inflight, [query |-> query, history |-> conversation])
    /\ query' = query

(* C12: an Enter without Shift in the textarea and a click on Process      *)
(* Query have the same effect under the same conditions: both submit when  *)
(* the query is not blank and no request is in flight, both change nothing *)
(* when the query is blank or a request is in flight; any other key,       *)
(* Shift+Enter included, changes nothing.                                   *)
C12_EnterSubmitsLikeClick ==
    [][ /\ SubmitAttempt =>
            IF OnlyWhiteSpace(query) \/ isProcessing
            THEN UNCHANGED prog
            ELSE SubmissionEffect
        /\ (lastEvent'.name = "keypress" /\ ~SubmitAttempt) => UNCHANGED prog ]_vars

\* an Enter without Shift has started a submission
C12_Witness ==
    /\ lastEvent.name = "keypress"
    /\ lastEvent.key = "Enter"
    /\ ~lastEvent.shiftKey
    /\ lastEvent.dispatched
    /\ isProcessing
    /\ Len(inflight) = 1
    /\ Last(conversation) = [role |-> "user", content |-> Str(query)]

(* C13: the user turn is appended and isProcessing is set when the         *)
(* submission is accepted, so that for as long as the backend call is      *)
(* pending the conversation is the history of the call followed by the     *)
(* user turn; an assistant turn is appended only by the step that handles  *)
(* the settlement of the call.                                             *)
C13_UserTurnBeforeSettlement ==
    /\ [](inflight # <<>> =>
            /\ isProcessing
            /\ conversation =
                  Append(inflight[1].history,
                         [role |-> "user", content |-> Str(inflight[1].query)]))
    /\ [][ /\ SubmissionAccepted =>
                /\ isProcessing'
                /\ Len(conversation') = Len(conversation) + 1
                /\ Last(conversation').role = "user"
           /\ (Len(conversation') > Len(conversation) /\ Last(conversation').role = "assistant") =>
                SettlementHandled ]_vars

\* a second request is in flight: its user turn follows the first exchange
C13_Witness ==
    /\ isProcessing
    /\ Len(inflight) = 1
    /\ Len(conversation) = 3
    /\ conversation[2].role = "assistant"
    /\ conversation[3] = [role |-> "user", content |-> Str(inflight[1].query)]

(* C14: isProcessing is true exactly while a backend call is pending: it   *)
(* becomes true only when a submission is accepted, becomes false only     *)
(* when the settlement of the call is handled, is false after every        *)
(* settlement, a failure included, and a session that is processing        *)
(* returns to idle once its call has settled.                               *)
C14_IdleSubmittingIdle ==
    /\ [](isProcessing <=> inflight # <<>>)
    /\ [][ /\ (~isProcessing /\ isProcessing') => SubmissionAccepted
           /\ (isProcessing /\ ~isProcessing') => SettlementHandled
           /\ SubmissionAccepted => (~isProcessing /\ isProcessing')
           /\ SettlementHandled => (isProcessing /\ ~isProcessing') ]_vars
    /\ (isProcessing ~> ~isProcessing)

\* the session is idle again after a failed exchange
C14_Witness ==
    /\ ~isProcessing
    /\ inflight = <<>>
    /\ lastEvent.name = "settled"
    /\ ~lastEvent.outcome.ok
    /\ calls = 2

\* the settlement handled by the step ends in the catch block
HandledAsFailure ==
    /\ SettlementHandled
    /\ \/ ~lastEvent'.outcome.ok
       \/ lastEvent'.outcome.data.t \in {"null", "undefined"}

\* the settlement handled by the step completes the try block
HandledAsSuccess == SettlementHandled /\ ~HandledAsFailure

(* C15: every step other than a click on Clear History leaves the          *)
(* conversation as a prefix of the new one; a failed exchange keeps the    *)
(* user turn of its query and appends the error turn after it.             *)
C15_AppendOnly ==
    [][ /\ lastEvent'.name # "clear" =>
            /\ Len(conversation') >= Len(conversation)
            /\ SubSeq(conversation', 1, Len(conversation)) = conversation
        /\ HandledAsFailure =>
            /\ Len(conversation') = Len(conversation) + 1
            /\ conversation'[Len(conversation)] =
                  [role |-> "user", content |-> Str(lastEvent'.request.query)]
            /\ Last(conversation').role = "assistant" ]_vars

\* the second exchange has failed and the turns of the first are still there
C15_Witness ==
    /\ lastEvent.name = "settled"
    /\ ~lastEvent.outcome.ok
    /\ Len(lastEvent.request.history) = 2
    /\ SubSeq(conversation, 1, 2) = lastEvent.request.history
    /\ conversation[3] = [role |-> "user", content |-> Str(lastEvent.request.query)]
    /\ Len(conversation) = 4

(* C16: in every reachable state the conversation starts with a user turn  *)
(* when it is not empty and no two consecutive turns have the same role.   *)
C16_RolesAlternate ==
    /\ conversation # <<>> => conversation[1].role = "user"
    /\ \A i \in 1..(Len(conversation) - 1) :
          conversation[i].role # conversation[i + 1].role
    /\ \A i \in 1..Len(conversation) : conversation[i].role \in {"user", "assistant"}

\* an exchange has settled after a clear: two calls, one pair of turns
C16_Witness ==
    /\ calls = 2
    /\ inflight = <<>>
    /\ Len(conversation) = 2
    /\ conversation[1].role = "user"
    /\ conversation[2].role = "assistant"

(* C17: the textarea is emptied by the settlement of an exchange that      *)
(* succeeds and left as it is by one that fails, so that the failed query  *)
(* can be submitted again; otherwise the query changes only by an edit,    *)
(* never while a request is in flight, and with a blank query no           *)
(* submission is accepted.                                                  *)
C17_QueryClearedOnSuccessOnly ==
    /\ [](inflight # <<>> => query = inflight[1].query)
    /\ [][ /\ HandledAsSuccess => query' = ""
           /\ HandledAsFailure =>
                /\ query' = query
                /\ query' = lastEvent'.request.query
                /\ ~OnlyWhiteSpace(query')
                /\ ~isProcessing'
           /\ (isProcessing /\ ~SettlementHandled) => query' = query
           /\ (query' # query /\ ~SettlementHandled) =>
                (lastEvent'.name = "change" /\ lastEvent'.dispatched)
           /\ OnlyWhiteSpace(query) => ~SubmissionAccepted ]_vars

\* an exchange has failed and its query is still in the textarea
C17_Witness ==
    /\ lastEvent.name = "settled"
    /\ ~lastEvent.outcome.ok
    /\ ~isProcessing
    /\ query = lastEvent.request.query
    /\ query = " a "

(* C18: a dispatched click on Clear History empties the conversation, the  *)
(* k-th backend call since then carries a history of 2(k-1) turns, so the  *)
(* first one an empty history, and the conversation holds nothing but the  *)
(* turns of the exchanges since then.                                       *)
C18_HistoryRestartsAfterClear ==
    /\ [](Len(conversation) = 2 * (succeeded + failed) + Len(inflight))
    /\ [][ /\ (lastEvent'.name = "clear" /\ lastEvent'.dispatched) =>
                /\ conversation' = <<>>
                /\ succeeded' = 0
                /\ failed' = 0
           /\ lastEvent'.name # "clear" =>
                (succeeded' + failed') \in {succeeded + failed, succeeded + failed + 1}
           /\ (succeeded' + failed' = succeeded + failed + 1) => SettlementHandled
           /\ SubmissionAccepted =>
                /\ Len(Last(inflight').history) = 2 * (succeeded + failed)
                /\ Last(inflight').history = conversation ]_vars

\* the first backend call after a clear is in flight
C18_Witness ==
    /\ Len(inflight) = 1
    /\ inflight[1].history = <<>>
    /\ calls = 2
    /\ Len(conversation) = 1

====
